---- MODULE Spec2Model ----
(***************************************************************************)
(* CudaSort (platforms/cuda/src/CudaSort.cpp): the host-side scheduler of  *)
(* OpenMM's GPU sort.  The constructor derives the launch configuration    *)
(* from the device limits, the SortTrait and the array length; sort()      *)
(* validates the buffer and issues either the one short-list launch or the *)
(* six device operations of the bucket pipeline.                           *)
(*                                                                         *)
(* A record is modelled by its sort key (a small natural number).  The     *)
(* device kernels and the CudaContext backend are not part of the source   *)
(* file; their effect is modelled from the written design (section 4.2,    *)
(* paths A and B, and section 7).                                          *)
(***************************************************************************)
EXTENDS Integers, Sequences, FiniteSets, TLC

\* ------------------------------------------------------------------ bounds
MaxBlockSize == 8
MaxSharedMem == 8
MaxDataSize == 2
MaxLength == 3
MaxKey == 4
MaxUndef == 2

\* ------------------------------------------------------------------ state
VARIABLES
    pc,                  \* "new", "idle", a stage of sort(), "ctorTrap", "sortTrap"
    maxBlockSize,        \* CU_DEVICE_ATTRIBUTE_MAX_BLOCK_DIM_X
    maxSharedMem,        \* CU_DEVICE_ATTRIBUTE_MAX_SHARED_MEMORY_PER_BLOCK
    trait,               \* [dataSize, keySize, keys]: sizes in bytes, the key values in use
    length,              \* the constructor's length argument
    isShortList,
    rangeKernelSize,
    positionsKernelSize,
    sortKernelSize,
    dataLength,
    dataRange,           \* the five workspace arrays
    bucketOfElement,
    offsetInBucket,
    bucketOffset,
    buckets,
    data,                \* the array passed to the sort() call in progress / last made
    result,              \* outcome of the last sort() call
    ops,                 \* device operations issued by that call, in stream order
    firstOps             \* device operations of the first successful call

config == <<isShortList, rangeKernelSize, positionsKernelSize, sortKernelSize, dataLength>>

workspace == <<dataRange, bucketOfElement, offsetInBucket, bucketOffset, buckets>>

inputs == <<maxBlockSize, maxSharedMem, trait, length>>

vars == <<pc, inputs, config, workspace, data, result, ops, firstOps>>

\* ------------------------------------------------------------------ arrays
\* a CudaArray: element count, element size in bytes, contents
NullArray == [allocated |-> FALSE, size |-> 0, elementSize |-> 0, contents |-> <<>>]

\* a cell of device memory nobody has written yet (keys are >= 0)
Unwritten == -1

NewArray(n, elemSize) ==
    [allocated |-> TRUE, size |-> n, elementSize |-> elemSize,
     contents |-> [i \in 1..n |-> Unwritten]]

Min2(a, b) == IF a < b THEN a ELSE b

SeqsOfLen(S, n) == [1..n -> S]

IsPowerOfTwo(n) == \E k \in 0..n : 2^k = n

\* --------------------------------------------------- constructor arithmetic
\* unsigned int maxLocalBuffer = (unsigned int) ((maxSharedMem/trait->getDataSize())/2);
MaxLocalBuffer(sharedMem, dataSize) == (sharedMem \div dataSize) \div 2

\* for (rangeKernelSize = 1; rangeKernelSize*2 <= maxBlockSize; rangeKernelSize *= 2) ;
RECURSIVE DoubleWhileFits(_, _)
DoubleWhileFits(size, blockSize) ==
    IF size * 2 <= blockSize THEN DoubleWhileFits(size * 2, blockSize) ELSE size

\* variant: the loop tests rangeKernelSize <= maxBlockSize and doubles once too often
DoubleWhileFitsOvershoot(blockSize) ==
    2 * DoubleWhileFits(1, blockSize)

LargestPowerOfTwo(blockSize) ==
    DoubleWhileFits(1, blockSize)

\* sortKernelSize = (isShortList ? rangeKernelSize/2 : rangeKernelSize/4);
\* if (sortKernelSize > maxLocalBuffer) sortKernelSize = maxLocalBuffer;
SortKernelSize(short, power, maxLocalBuffer) ==
    LET unclamped == IF short THEN power \div 2 ELSE power \div 4
    IN  IF unclamped > maxLocalBuffer THEN maxLocalBuffer ELSE unclamped

\* if (rangeKernelSize > length) rangeKernelSize = length;
RangeKernelSize(power, len) ==
    IF power > len THEN len ELSE power

\* unsigned int targetBucketSize = sortKernelSize/2;
TargetBucketSize(sortSize) == sortSize \div 2

\* if (numBuckets < 1) numBuckets = 1;
NumBuckets(quotient) ==
    IF quotient < 1 THEN 1 ELSE quotient

\* if (positionsKernelSize > numBuckets) positionsKernelSize = numBuckets;
PositionsKernelSize(power, numBuckets) ==
    IF power > numBuckets THEN numBuckets ELSE power

\* what the constructor has derived when it reaches the division of line 70
ShortListOf == length <= MaxLocalBuffer(maxSharedMem, trait.dataSize)

PowerOf == LargestPowerOfTwo(maxBlockSize)

SortSizeOf == SortKernelSize(ShortListOf, PowerOf, MaxLocalBuffer(maxSharedMem, trait.dataSize))

\* lines 60-68 and the member initialisers of line 35
DeriveSizes ==
    /\ isShortList' = ShortListOf
    /\ rangeKernelSize' = RangeKernelSize(PowerOf, length)
    /\ sortKernelSize' = SortSizeOf
    /\ dataLength' = length

\* lines 70-84, given the quotient length/targetBucketSize
FinishConstruction(quotient) ==
    LET numBuckets == NumBuckets(quotient)
    IN  /\ DeriveSizes
        /\ positionsKernelSize' = PositionsKernelSize(PowerOf, numBuckets)
        /\ IF ~ShortListOf
              THEN /\ dataRange' = NewArray(2, trait.keySize)
                   /\ bucketOffset' = NewArray(numBuckets, 4)
                   /\ bucketOfElement' = NewArray(length, 4)
                   /\ offsetInBucket' = NewArray(length, 4)
                   /\ buckets' = NewArray(length, trait.dataSize)
              ELSE UNCHANGED workspace
        /\ pc' = "idle"
        /\ UNCHANGED <<inputs, data, result, ops, firstOps>>

\* CudaSort::CudaSort when targetBucketSize is not zero
Construct ==
    /\ pc = "new"
    /\ TargetBucketSize(SortSizeOf) # 0
    /\ FinishConstruction(length \div TargetBucketSize(SortSizeOf))

\* CudaSort::CudaSort when targetBucketSize is zero: line 70 divides by zero,
\* which is undefined; the build either traps (SIGFPE) or yields some quotient
ConstructDivByZero ==
    /\ pc = "new"
    /\ TargetBucketSize(SortSizeOf) = 0
    /\ \/ /\ DeriveSizes
          /\ positionsKernelSize' = PowerOf
          /\ pc' = "ctorTrap"
          /\ UNCHANGED <<inputs, workspace, data, result, ops, firstOps>>
       \/ \E quotient \in 0..MaxUndef : FinishConstruction(quotient)

\* ------------------------------------------------ device kernels (design 4.2)
IsSorted(s) == \A i \in 1..(Len(s) - 1) : s[i] <= s[i + 1]

RECURSIVE Insert(_, _)
Insert(x, s) ==
    IF s = <<>> THEN <<x>>
    ELSE IF x <= Head(s) THEN <<x>> \o s
    ELSE <<Head(s)>> \o Insert(x, Tail(s))

RECURSIVE SortAscending(_)
SortAscending(s) ==
    IF s = <<>> THEN <<>> ELSE Insert(Head(s), SortAscending(Tail(s)))

Count(s, x) == Cardinality({i \in DOMAIN s : s[i] = x})

IsPermutation(s, t) ==
    /\ Len(s) = Len(t)
    /\ \A i \in DOMAIN s : Count(s, s[i]) = Count(t, s[i])

\* path A: the whole array, sorted ascending by key
sortShortList(d, n) ==
    SortAscending(SubSeq(d, 1, n)) \o SubSeq(d, n + 1, Len(d))

\* stage 1: the observed [min, max] of the keys
computeRange(d, n) ==
    << CHOOSE k \in {d[i] : i \in 1..n} : \A i \in 1..n : k <= d[i],
       CHOOSE k \in {d[i] : i \in 1..n} : \A i \in 1..n : k >= d[i] >>

\* the key range cut into numBuckets intervals of equal width
BucketIndex(key, range, numBuckets) ==
    IF range[2] = range[1] THEN 0
    ELSE Min2(((key - range[1]) * numBuckets) \div (range[2] - range[1]), numBuckets - 1)

\* stage 2: each element takes the next free slot of its bucket
assignElementsToBuckets(d, n, numBuckets, range, offsets) ==
    LET bucket == [i \in 1..n |-> BucketIndex(d[i], range, numBuckets)]
    IN  [bucketOfElement |-> bucket,
         offsetInBucket |->
             [i \in 1..n |-> offsets[bucket[i] + 1]
                              + Cardinality({j \in 1..(i - 1) : bucket[j] = bucket[i]})],
         bucketOffset |->
             [k \in 1..numBuckets |-> offsets[k]
                              + Cardinality({j \in 1..n : bucket[j] = k - 1})]]

RECURSIVE SumBefore(_, _)
SumBefore(s, k) ==
    IF k <= 1 THEN 0 ELSE s[k - 1] + SumBefore(s, k - 1)

\* stage 3: the counts become start offsets (exclusive scan)
computeBucketPositions(numBuckets, offsets) ==
    [k \in 1..numBuckets |-> SumBefore(offsets, k)]

\* stage 4: element i goes to bucketOffset[bucket] + offsetInBucket[i]
copyDataToBuckets(d, scratch, n, offsets, bucketOf, offsetIn) ==
    LET pos(i) == offsets[bucketOf[i] + 1] + offsetIn[i] + 1
    IN  [p \in DOMAIN scratch |->
            IF \E i \in 1..n : pos(i) = p
              THEN d[CHOOSE i \in 1..n : pos(i) = p]
              ELSE scratch[p]]

\* stage 5: each bucket's slice of the scratch array is sorted and written back;
\* a slice runs from its bucket's offset to the next bucket's (the last one to
\* the end of the array)
sortBuckets(d, scratch, numBuckets, offsets) ==
    LET start(b) == offsets[b + 1]
        end(b) == IF b + 1 < numBuckets THEN offsets[b + 2] ELSE Len(scratch)
        slice(b) == SortAscending(SubSeq(scratch, start(b) + 1, end(b)))
        owner(p) == {b \in 0..(numBuckets - 1) : start(b) < p /\ p <= end(b)}
    IN  [p \in DOMAIN d |->
            IF owner(p) = {} THEN d[p]
            ELSE LET b == CHOOSE b \in owner(p) : TRUE
                 IN  slice(b)[p - start(b)]]

\* ------------------------------------------------------ the device backend
\* context.executeKernel(kernel, args, threads, blockSize, sharedSize)
Launch(kernel, threads, blockSize, sharedSize) ==
    [op |-> kernel, explicit |-> TRUE, threads |-> threads,
     blockSize |-> blockSize, sharedSize |-> sharedSize]

\* context.executeKernel(kernel, args, threads): block size and shared memory
\* are left to the backend's defaults
LaunchDefault(kernel, threads) ==
    [op |-> kernel, explicit |-> FALSE, threads |-> threads,
     blockSize |-> 0, sharedSize |-> 0]

\* context.clearBuffer(array)
ClearOp == [op |-> "clearBuffer", explicit |-> FALSE, threads |-> 0,
            blockSize |-> 0, sharedSize |-> 0]

\* a launch of groups of zero threads cannot run; the backend reports it
LaunchRuns(op) == op.explicit => op.blockSize > 0

ClearBuffer(array) ==
    [array EXCEPT !.contents = [i \in 1..array.size |-> 0]]

\* ------------------------------------------------------- CudaSort::sort
\* data.getSize() != dataLength || data.getElementSize() != trait->getDataSize()
\* variant: the two comparisons joined by && instead of ||
MismatchBoth(buf) ==
    buf.size # dataLength /\ buf.elementSize # trait.dataSize

Mismatch(buf) ==
    buf.size # dataLength \/ buf.elementSize # trait.dataSize

\* data.getSize() == 0
\* variant: the early return for an empty array is missing
EmptyDataNever(buf) == FALSE

EmptyData(buf) == buf.size = 0

\* the arrays a caller may pass; a rejected array is never read, so its
\* contents are drawn as zeros
Contents(n, e) ==
    IF n = dataLength /\ e = trait.dataSize
      THEN SeqsOfLen(trait.keys, n)
      ELSE {[i \in 1..n |-> 0]}

Returned(issued) ==
    /\ result' = "ok"
    /\ pc' = "idle"
    /\ firstOps' = IF firstOps.set THEN firstOps ELSE [set |-> TRUE, ops |-> issued]

\* the backend refuses a launch: the exception leaves sort()
LaunchFailed ==
    /\ result' = "DeviceExecutionFailure"
    /\ pc' = "idle"
    /\ UNCHANGED <<inputs, config, workspace, data, ops, firstOps>>

\* lines 101-106: the checks and the choice of path
SortBegin ==
    /\ pc = "idle"
    /\ \E n \in 0..MaxLength, e \in 1..MaxDataSize :
         \E c \in Contents(n, e) :
           LET buf == [size |-> n, elementSize |-> e, contents |-> c, original |-> c]
           IN  /\ data' = buf
               /\ ops' = <<>>
               /\ IF Mismatch(buf)
                    THEN /\ result' = "InvalidArgument"
                         /\ pc' = "idle"
                         /\ UNCHANGED firstOps
                    ELSE IF EmptyData(buf)
                    THEN Returned(<<>>)
                    ELSE /\ result' = "running"
                         /\ pc' = IF isShortList THEN "shortList" ELSE "range"
                         /\ UNCHANGED firstOps
    /\ UNCHANGED <<inputs, config, workspace>>

\* line 110
\* variant: shared memory sized by the group instead of by the array
ShortListOpGroupShared ==
    Launch("sortShortList", sortKernelSize, sortKernelSize, sortKernelSize * trait.dataSize)

ShortListOp ==
    Launch("sortShortList", sortKernelSize, sortKernelSize, dataLength * trait.dataSize)

LaunchShortList ==
    /\ pc = "shortList"
    /\ IF LaunchRuns(ShortListOp)
         THEN /\ ops' = Append(ops, ShortListOp)
              /\ data' = [data EXCEPT !.contents = sortShortList(data.contents, dataLength)]
              /\ Returned(ops')
              /\ UNCHANGED <<inputs, config, workspace>>
         ELSE LaunchFailed

\* line 116
\* variant: shared memory sized by the record instead of by the key
RangeOpDataSize ==
    Launch("computeRange", rangeKernelSize, rangeKernelSize, rangeKernelSize * trait.dataSize)

RangeOp ==
    Launch("computeRange", rangeKernelSize, rangeKernelSize, rangeKernelSize * trait.keySize)

\* variant: bucketOffset is not cleared before the assignment
LaunchRangeThenAssign ==
    /\ pc = "range"
    /\ ops' = Append(ops, RangeOp)
    /\ dataRange' = [dataRange EXCEPT !.contents = computeRange(data.contents, dataLength)]
    /\ pc' = "assign"
    /\ UNCHANGED <<inputs, config, bucketOfElement, offsetInBucket, bucketOffset,
                   buckets, data, result, firstOps>>

LaunchRange ==
    /\ pc = "range"
    /\ IF LaunchRuns(RangeOp)
         THEN /\ ops' = Append(ops, RangeOp)
              /\ dataRange' = [dataRange EXCEPT
                                 !.contents = computeRange(data.contents, dataLength)]
              /\ pc' = "clear"
              /\ UNCHANGED <<inputs, config, bucketOfElement, offsetInBucket, bucketOffset,
                             buckets, data, result, firstOps>>
         ELSE LaunchFailed

\* lines 120-121
ClearBucketOffset ==
    /\ pc = "clear"
    /\ ops' = Append(ops, ClearOp)
    /\ bucketOffset' = ClearBuffer(bucketOffset)
    /\ pc' = "assign"
    /\ UNCHANGED <<inputs, config, dataRange, bucketOfElement, offsetInBucket,
                   buckets, data, result, firstOps>>

\* line 124
AssignOp == LaunchDefault("assignElementsToBuckets", data.size)

LaunchAssign ==
    /\ pc = "assign"
    /\ LET out == assignElementsToBuckets(data.contents, dataLength, bucketOffset.size,
                                          dataRange.contents, bucketOffset.contents)
       IN  /\ bucketOffset' = [bucketOffset EXCEPT !.contents = out.bucketOffset]
           /\ bucketOfElement' = [bucketOfElement EXCEPT !.contents = out.bucketOfElement]
           /\ offsetInBucket' = [offsetInBucket EXCEPT !.contents = out.offsetInBucket]
    /\ ops' = Append(ops, AssignOp)
    /\ pc' = "positions"
    /\ UNCHANGED <<inputs, config, dataRange, buckets, data, result, firstOps>>

\* line 129
PositionsOp ==
    Launch("computeBucketPositions", positionsKernelSize, positionsKernelSize,
           positionsKernelSize * 4)

LaunchPositions ==
    /\ pc = "positions"
    /\ IF LaunchRuns(PositionsOp)
         THEN /\ ops' = Append(ops, PositionsOp)
              /\ bucketOffset' = [bucketOffset EXCEPT !.contents =
                     computeBucketPositions(bucketOffset.size, bucketOffset.contents)]
              /\ pc' = "copy"
              /\ UNCHANGED <<inputs, config, dataRange, bucketOfElement, offsetInBucket,
                             buckets, data, result, firstOps>>
         ELSE LaunchFailed

\* line 135
CopyOp == LaunchDefault("copyDataToBuckets", data.size)

LaunchCopy ==
    /\ pc = "copy"
    /\ ops' = Append(ops, CopyOp)
    /\ buckets' = [buckets EXCEPT !.contents =
           copyDataToBuckets(data.contents, buckets.contents, dataLength,
                             bucketOffset.contents, bucketOfElement.contents,
                             offsetInBucket.contents)]
    /\ pc' = "sortBuckets"
    /\ UNCHANGED <<inputs, config, dataRange, bucketOfElement, offsetInBucket,
                   bucketOffset, data, result, firstOps>>

\* line 140
SortBucketsOp ==
    Launch("sortBuckets",
           ((data.size + sortKernelSize - 1) \div sortKernelSize) * sortKernelSize,
           sortKernelSize, sortKernelSize * trait.dataSize)

\* variant: the data and buckets arguments in each other's place
LaunchSortBucketsSwapped ==
    /\ pc = "sortBuckets"
    /\ sortKernelSize # 0
    /\ ops' = Append(ops, SortBucketsOp)
    /\ buckets' = [buckets EXCEPT !.contents =
           sortBuckets(buckets.contents, data.contents, bucketOffset.size,
                       bucketOffset.contents)]
    /\ Returned(ops')
    /\ UNCHANGED <<inputs, config, dataRange, bucketOfElement, offsetInBucket,
                   bucketOffset, data>>

\* variant: the rounded thread count is stored back into sortKernelSize
LaunchSortBucketsRounding ==
    /\ pc = "sortBuckets"
    /\ sortKernelSize # 0
    /\ ops' = Append(ops, SortBucketsOp)
    /\ sortKernelSize' = SortBucketsOp.threads
    /\ data' = [data EXCEPT !.contents =
           sortBuckets(data.contents, buckets.contents, bucketOffset.size,
                       bucketOffset.contents)]
    /\ Returned(ops')
    /\ UNCHANGED <<inputs, isShortList, rangeKernelSize, positionsKernelSize,
                   dataLength, workspace>>

LaunchSortBuckets ==
    /\ pc = "sortBuckets"
    /\ sortKernelSize # 0
    /\ ops' = Append(ops, SortBucketsOp)
    /\ data' = [data EXCEPT !.contents =
           sortBuckets(data.contents, buckets.contents, bucketOffset.size,
                       bucketOffset.contents)]
    /\ Returned(ops')
    /\ UNCHANGED <<inputs, config, workspace>>

\* line 140 with sortKernelSize zero: the rounding divides by zero, which is
\* undefined; the build either traps or hands the backend some thread count
\* with groups of zero threads, which the backend refuses
SortBucketsDivByZero ==
    /\ pc = "sortBuckets"
    /\ sortKernelSize = 0
    /\ \/ /\ pc' = "sortTrap"
          /\ result' = "trap"
          /\ UNCHANGED <<inputs, config, workspace, data, ops, firstOps>>
       \/ LaunchFailed

\* ------------------------------------------------------------ specification
EmptyBuffer == [size |-> 0, elementSize |-> 1, contents |-> <<>>, original |-> <<>>]

Unconstructed ==
    /\ pc = "new"
    /\ isShortList = FALSE
    /\ rangeKernelSize = 0
    /\ positionsKernelSize = 0
    /\ sortKernelSize = 0
    /\ dataLength = 0
    /\ dataRange = NullArray
    /\ bucketOfElement = NullArray
    /\ offsetInBucket = NullArray
    /\ bucketOffset = NullArray
    /\ buckets = NullArray
    /\ data = EmptyBuffer
    /\ result = "none"
    /\ ops = <<>>
    /\ firstOps = [set |-> FALSE, ops |-> <<>>]

\* every device and descriptor within the bounds; the launch sequence does not
\* read the array's contents, so the key type has a single value
Init ==
    /\ maxBlockSize \in 1..MaxBlockSize
    /\ maxSharedMem \in 1..MaxSharedMem
    /\ \E d \in 1..MaxDataSize, k \in 1..MaxDataSize :
         /\ k <= d
         /\ trait = [dataSize |-> d, keySize |-> k, keys |-> {0}]
    /\ length \in 0..MaxLength
    /\ Unconstructed

\* a few devices, one-byte records, every array over three key values
InitData ==
    /\ maxBlockSize \in {1, 2, MaxBlockSize}
    /\ maxSharedMem \in {MaxSharedMem \div 2, MaxSharedMem}
    /\ trait = [dataSize |-> 1, keySize |-> 1, keys |-> {0, 1, MaxKey}]
    /\ length \in 0..MaxLength
    /\ Unconstructed

Next ==
    \/ Construct
    \/ ConstructDivByZero
    \/ SortBegin
    \/ LaunchShortList
    \/ LaunchRange
    \/ ClearBucketOffset
    \/ LaunchAssign
    \/ LaunchPositions
    \/ LaunchCopy
    \/ LaunchSortBuckets
    \/ SortBucketsDivByZero

Spec == Init /\ [][Next]_vars

SpecData == InitData /\ [][Next]_vars

\* ------------------------------------------------------------------ claims
Constructed == pc \notin {"new", "ctorTrap"}

\* the constructor ran to its end and its division had a non-zero divisor
DefinedConstruction == Constructed /\ sortKernelSize \div 2 # 0

CallReturned == pc = "idle" /\ result # "none"

InStage == pc \in {"shortList", "range", "clear", "assign", "positions", "copy", "sortBuckets"}

DataMatches == data.size = dataLength /\ data.elementSize = trait.dataSize

OpNames == [i \in DOMAIN ops |-> ops[i].op]

Written(array) == \A i \in DOMAIN array.contents : array.contents[i] # Unwritten

Shape(array) == <<array.allocated, array.size, array.elementSize>>

\* C1: after a successful sort() of a matching array, on either path, the array
\* is a rearrangement of what was passed in, in non-decreasing key order
C1_SortedAfterSort ==
    (pc = "idle" /\ result = "ok") =>
        /\ IsSorted(data.contents)
        /\ IsPermutation(data.original, data.contents)

\* the bucket path has sorted an array in which two keys of one bucket were out of order
C1_Witness ==
    /\ pc = "idle" /\ result = "ok" /\ ~isShortList
    /\ DefinedConstruction
    /\ \E i, j \in 1..dataLength :
         /\ i < j
         /\ data.original[i] > data.original[j]
         /\ bucketOfElement.contents[i] = bucketOfElement.contents[j]

\* C2: an array of the wrong length or element size is rejected with
\* InvalidArgument before any device operation: no stage of either path is ever
\* entered with it and the call's list of device operations stays empty
C2_MismatchRejected ==
    /\ (CallReturned /\ ~DataMatches) => (result = "InvalidArgument" /\ ops = <<>>)
    /\ InStage => DataMatches
    /\ result = "InvalidArgument" => ~DataMatches

\* a bucket-path instance that has sorted before rejects an array of the right
\* length and the wrong element size
C2_Witness ==
    /\ pc = "idle" /\ result = "InvalidArgument" /\ ~isShortList
    /\ firstOps.set /\ Len(firstOps.ops) > 0
    /\ data.size = dataLength /\ data.elementSize # trait.dataSize

\* C3 as stated: on an instance of length 0 every sort() succeeds and issues no
\* device operation, whatever array is passed (read on instances whose
\* construction was defined)
C3_Original ==
    (DefinedConstruction /\ dataLength = 0 /\ CallReturned) =>
        (result = "ok" /\ ops = <<>>)

\* C3 amended: on an instance of length 0 no sort() ever issues a device
\* operation or enters a stage; the call succeeds exactly when the array
\* matches (length 0, element size dataSize) and is rejected with
\* InvalidArgument otherwise
C3_ZeroLength ==
    /\ (Constructed /\ dataLength = 0) => (~InStage /\ ops = <<>>)
    /\ (Constructed /\ dataLength = 0 /\ CallReturned) =>
          /\ DataMatches => result = "ok"
          /\ ~DataMatches => result = "InvalidArgument"

\* a length-0 instance has returned successfully once and now rejected an array
C3_Witness ==
    /\ DefinedConstruction /\ dataLength = 0
    /\ pc = "idle" /\ result = "InvalidArgument" /\ firstOps.set

\* C4 as stated: no launch is granted more shared memory than the device allows
\* (read on instances whose construction was defined)
C4_SharedWithinLimit ==
    DefinedConstruction =>
        \A i \in DOMAIN ops : ops[i].sharedSize <= maxSharedMem

\* C5 as stated: after construction the three group sizes are powers of two
\* and at most the device's maximum block size (read on instances whose
\* construction was defined)
C5_Original ==
    DefinedConstruction =>
        \A size \in {sortKernelSize, rangeKernelSize, positionsKernelSize} :
            IsPowerOfTwo(size) /\ size <= maxBlockSize

\* C5 amended: with P the largest power of two not above the maximum block
\* size, rangeKernelSize = min(P, length), sortKernelSize = min(P/2 or P/4,
\* maxLocalBuffer) and positionsKernelSize = min(P, numBuckets); each is at most
\* the maximum block size, but a size replaced by its clamp takes the clamp's
\* value, which need not be a power of two
C5_GroupSizes ==
    Constructed =>
        \E power \in 1..maxBlockSize :
            /\ IsPowerOfTwo(power) /\ 2 * power > maxBlockSize
            /\ rangeKernelSize = Min2(power, dataLength)
            /\ sortKernelSize = Min2(IF isShortList THEN power \div 2 ELSE power \div 4,
                                     (maxSharedMem \div trait.dataSize) \div 2)
            /\ IF isShortList
                 THEN positionsKernelSize \in 1..power
                 ELSE positionsKernelSize = Min2(power, bucketOffset.size)
            /\ \A size \in {sortKernelSize, rangeKernelSize, positionsKernelSize} :
                   size <= maxBlockSize

\* a bucket-path instance whose range group size was clamped to a length that
\* is no power of two
C5_Witness ==
    /\ DefinedConstruction /\ ~isShortList
    /\ rangeKernelSize = dataLength
    /\ ~IsPowerOfTwo(rangeKernelSize)
    /\ positionsKernelSize = bucketOffset.size

\* C6 as stated: construction never fails, the bucket-count division never has
\* a zero divisor, and a bucket-path instance has at least one bucket
C6_ConstructionDefined ==
    pc # "new" =>
        /\ pc # "ctorTrap"
        /\ sortKernelSize \div 2 # 0
        /\ ~isShortList => bucketOffset.size >= 1

\* C7: a successful sort() on the bucket path issues range, clear, assign,
\* positions, copy, per-bucket sort, once each and in that order; while it runs
\* the operations issued are a prefix of that list, and a stage is entered only
\* when every array it reads has been written
BucketPipeline ==
    <<"computeRange", "clearBuffer", "assignElementsToBuckets",
      "computeBucketPositions", "copyDataToBuckets", "sortBuckets">>

C7_PipelineOrder ==
    (Constructed /\ ~isShortList) =>
        /\ Len(ops) <= Len(BucketPipeline)
        /\ OpNames = SubSeq(BucketPipeline, 1, Len(ops))
        /\ (pc = "idle" /\ result = "ok" /\ dataLength > 0) => Len(ops) = 6
        /\ pc = "clear" => Len(ops) = 1
        /\ pc = "assign" =>
              /\ Len(ops) = 2 /\ Written(dataRange)
              /\ \A i \in DOMAIN bucketOffset.contents : bucketOffset.contents[i] = 0
        /\ pc = "positions" => Len(ops) = 3 /\ Written(bucketOffset)
        /\ pc = "copy" =>
              /\ Len(ops) = 4
              /\ Written(bucketOfElement) /\ Written(offsetInBucket)
        /\ pc = "sortBuckets" => Len(ops) = 5 /\ Written(buckets)

\* a bucket-path call has returned successfully with its six operations
C7_Witness ==
    /\ DefinedConstruction /\ ~isShortList /\ dataLength > 0
    /\ pc = "idle" /\ result = "ok" /\ Len(ops) = 6

\* C8: a successful sort() on a short-list instance issues one operation, the
\* short-list launch with sortKernelSize threads in one group of sortKernelSize
\* and length x dataSize bytes of shared memory; the instance has no workspace
\* array and never clears one
C8_ShortListLaunch ==
    (Constructed /\ isShortList) =>
        /\ \A array \in {dataRange, bucketOfElement, offsetInBucket, bucketOffset, buckets} :
               array = NullArray
        /\ \A i \in DOMAIN ops : ops[i].op = "sortShortList"
        /\ (pc = "idle" /\ result = "ok" /\ dataLength > 0) =>
               ops = << [op |-> "sortShortList", explicit |-> TRUE,
                         threads |-> sortKernelSize, blockSize |-> sortKernelSize,
                         sharedSize |-> dataLength * trait.dataSize] >>

\* a short-list call has returned successfully, on an instance whose group size
\* differs from its length
C8_Witness ==
    /\ DefinedConstruction /\ isShortList
    /\ dataLength > 0 /\ sortKernelSize # dataLength
    /\ pc = "idle" /\ result = "ok" /\ Len(ops) = 1

\* C9 as stated: the range launch has rangeKernelSize x rangeKernelSize threads
\* in groups of rangeKernelSize, the positions launch positionsKernelSize x
\* positionsKernelSize threads in groups of positionsKernelSize (read on
\* instances whose construction was defined)
C9_Original ==
    DefinedConstruction =>
        \A i \in DOMAIN ops :
            /\ ops[i].op = "computeRange" =>
                  /\ ops[i].threads = rangeKernelSize * rangeKernelSize
                  /\ ops[i].blockSize = rangeKernelSize
                  /\ ops[i].sharedSize = rangeKernelSize * trait.keySize
            /\ ops[i].op = "computeBucketPositions" =>
                  /\ ops[i].threads = positionsKernelSize * positionsKernelSize
                  /\ ops[i].blockSize = positionsKernelSize
                  /\ ops[i].sharedSize = positionsKernelSize * 4

\* C9 amended: the range launch has rangeKernelSize threads in all, in groups
\* of rangeKernelSize (one group), with rangeKernelSize x keySize bytes of
\* shared memory; the positions launch has positionsKernelSize threads in all,
\* in groups of positionsKernelSize (one group), with positionsKernelSize x 4 bytes
C9_RangeAndPositionsLaunch ==
    Constructed =>
        \A i \in DOMAIN ops :
            /\ ops[i].op = "computeRange" =>
                  /\ ops[i].explicit
                  /\ ops[i].threads = rangeKernelSize
                  /\ ops[i].blockSize = rangeKernelSize
                  /\ ops[i].sharedSize = rangeKernelSize * trait.keySize
            /\ ops[i].op = "computeBucketPositions" =>
                  /\ ops[i].explicit
                  /\ ops[i].threads = positionsKernelSize
                  /\ ops[i].blockSize = positionsKernelSize
                  /\ ops[i].sharedSize = positionsKernelSize * 4

\* both launches have been issued, with groups of more than one thread and a
\* key smaller than the record
C9_Witness ==
    /\ DefinedConstruction /\ trait.keySize < trait.dataSize
    /\ rangeKernelSize > 1 /\ positionsKernelSize > 1
    /\ \E i, j \in DOMAIN ops :
          ops[i].op = "computeRange" /\ ops[j].op = "computeBucketPositions"

\* C10: no step of any sort() call, successful, empty or rejected, changes the
\* configuration or the workspace arrays' existence and sizes, and every
\* successful call returns having issued the operations of the first one
C10_ConfigurationFixed ==
    [][ Constructed =>
          /\ config' = config
          /\ Shape(dataRange)' = Shape(dataRange)
          /\ Shape(bucketOfElement)' = Shape(bucketOfElement)
          /\ Shape(offsetInBucket)' = Shape(offsetInBucket)
          /\ Shape(bucketOffset)' = Shape(bucketOffset)
          /\ Shape(buckets)' = Shape(buckets)
          /\ (pc' = "idle" /\ result' = "ok" /\ firstOps.set) => ops' = firstOps.ops
      ]_vars

\* a later call on a bucket-path instance is about to issue its last operation
C10_Witness ==
    /\ DefinedConstruction /\ ~isShortList
    /\ pc = "sortBuckets"
    /\ firstOps.set /\ Len(firstOps.ops) = 6
    /\ ops = SubSeq(firstOps.ops, 1, 5)

====
